---- MODULE Spec2Model ----
(***************************************************************************)
(* A state-machine model of the recursive-descent parser of lacc           *)
(* (src/src/parse.c).  The parser's functions run on an explicit call      *)
(* stack; every function of parse.c is one action that performs the next   *)
(* segment of its body (up to the next call into another parser function,  *)
(* or up to the next token that has to be fetched from the lexer).         *)
(*                                                                         *)
(* The lexer, the symbol table, the type builder and the block builder     *)
(* are not part of parse.c; they are modelled from their description in     *)
(* spec.md (sections 3, 4.1-4.3 and 6).                                    *)
(***************************************************************************)
EXTENDS Integers, Sequences, FiniteSets, TLC

\* ------------------------------------------------------------------ bounds

\* Tokens of a translation unit of declarations.
MaxDeclTokens == 6

\* Tokens of an array declarator after "char x" or "int x".
MaxArrayTokens == 7

\* Tokens of a function body of loops after "int f ( ) {".
MaxLoopTokens == 6

\* Tokens of a function body of if, goto and case after "int f ( ) {".
MaxIfTokens == 6

\* Tokens of the body of the second function of a translation unit.
MaxUnitTokens == 3

\* Tokens of the else branch of an if statement.
MaxReturnTokens == 5

\* ------------------------------------------------------------------ tokens

Tok(type, value) == [type |-> type, value |-> value]

\* The token get_token leaves behind when it reports the end of the input.
END == Tok("END", "$")

\* The value of a token variable before anything was stored in it.
NoToken == Tok("NONE", "")

Punct(c) == Tok(c, c)

Ident(n) == Tok("IDENTIFIER", n)

Integer(n) == Tok("INTEGER", n)

Keyword(k) == Tok(k, k)

\* ------------------------------------------------------------------ state

VARIABLES
    lexer,            \* the lexer collaborator: what get_token may still deliver
    peek_value,       \* parse.c:9
    has_value,        \* parse.c:10
    eof,              \* parse.c:11
    stack,            \* the C call stack: one frame per active parser function
    ret,              \* the value the last returning function returned
    blocks,           \* the heap of block_t records, indexed by address
    scopes,           \* the symbol table's scope stack
    break_target,     \* parse.c:372 (static)
    continue_target,  \* parse.c:372 (static)
    outputs,          \* the blocks handed to output_block, in order
    status,           \* "running", "done" (compile returned), "fatal" (exit), "crash"
    exit_code,        \* the process's exit code once status = "fatal" or "done"
    diag              \* what error() printed last

vars == <<lexer, peek_value, has_value, eof, stack, ret, blocks, scopes,
          break_target, continue_target, outputs, status, exit_code, diag>>

\* The null pointer, for block_t pointers.
NULL == 0

\* A null char pointer (no name).
NoName == ""

\* The whole machine state as one record; v is the value the last operation
\* of the running segment produced (a C expression's value, not program state).
State == [lexer |-> lexer, peek_value |-> peek_value, has_value |-> has_value,
          eof |-> eof, stack |-> stack, ret |-> ret, blocks |-> blocks,
          scopes |-> scopes, break_target |-> break_target,
          continue_target |-> continue_target, outputs |-> outputs,
          status |-> status, exit_code |-> exit_code, diag |-> diag, v |-> 0]

Commit(s) ==
    /\ lexer' = s.lexer
    /\ peek_value' = s.peek_value
    /\ has_value' = s.has_value
    /\ eof' = s.eof
    /\ stack' = s.stack
    /\ ret' = s.ret
    /\ blocks' = s.blocks
    /\ scopes' = s.scopes
    /\ break_target' = s.break_target
    /\ continue_target' = s.continue_target
    /\ outputs' = s.outputs
    /\ status' = s.status
    /\ exit_code' = s.exit_code
    /\ diag' = s.diag

\* Sequencing: run F on every outcome of R that is still running; an outcome
\* in which the process has ended (exit, crash) is final.
Then(R, F(_)) == UNION {IF s.status = "running" THEN F(s) ELSE {s} : s \in R}

Val(s, x) == [s EXCEPT !.v = x]

\* The returned-value register: block pointers, types, names and symbols.
NullType == [type |-> "NULL", flags |-> {}, size |-> 0, length |-> 0]

NullSym == [null |-> TRUE, name |-> NoName, type |-> NullType, depth |-> 0 - 1,
            is_immediate |-> FALSE, longval |-> 0]

Ret0 == [block |-> NULL, type |-> NullType, name |-> NoName, sym |-> NullSym]

\* ------------------------------------------------------- process termination

\* exit(code): the process ends where it stands.
Exit(s, code, msg) ==
    [s EXCEPT !.status = "fatal", !.exit_code = code, !.diag = msg]

\* A write or read through a null pointer: the process is killed by a signal.
Crash(s, msg) == [Exit(s, 0 - 1, msg) EXCEPT !.status = "crash"]

\* --------------------------------------------------------------- the lexer

\* get_token(&t): the next token and 1, or the end-of-input token and 0.
\* read is the input delivered so far, as token types.
get_token(s) ==
    IF s.lexer.pre # <<>>
    THEN {[s EXCEPT !.lexer.pre = Tail(@),
                    !.lexer.read = Append(@, Head(s.lexer.pre).type),
                    !.v = [tok |-> Head(s.lexer.pre), ok |-> TRUE]]}
    ELSE IF s.lexer.fuel > 0
    THEN {[s EXCEPT !.lexer.fuel = @ - 1, !.lexer.read = Append(@, t.type),
                    !.v = [tok |-> t, ok |-> TRUE]] : t \in s.lexer.alpha}
         \cup {[s EXCEPT !.lexer.fuel = 0, !.v = [tok |-> END, ok |-> FALSE]]}
    ELSE {[s EXCEPT !.v = [tok |-> END, ok |-> FALSE]]}

readtoken(s) ==
    IF s.has_value
    THEN {[s EXCEPT !.has_value = FALSE, !.v = s.peek_value]}
    ELSE {[g EXCEPT !.eof = ~g.v.ok, !.v = g.v.tok] : g \in get_token(s)}

peek(s) ==
    IF ~s.has_value
    THEN {[r EXCEPT !.peek_value = r.v, !.has_value = TRUE, !.v = r.v.type]
              : r \in readtoken(s)}
    ELSE {Val(s, s.peek_value.type)}

consume(s, expected) ==
    {IF r.v.type # expected THEN Exit(r, 1, "Unexpected token") ELSE r
         : r \in readtoken(s)}

\* ----------------------------------------------------------- the call stack

Top(s) == s.stack[Len(s.stack)]

SetTop(s, f) == [s EXCEPT !.stack[Len(s.stack)] = f]

\* Continue the running function at pc.
Goto(s, pc) == [s EXCEPT !.stack[Len(s.stack)].pc = pc]

\* Call a parser function: the caller resumes at retpc when frame returns.
Call(s, retpc, frame) ==
    [s EXCEPT !.stack = Append([@ EXCEPT ![Len(@)].pc = retpc], frame),
              !.ret = Ret0]

\* Return r from the running function.
Return(s, r) == [s EXCEPT !.stack = SubSeq(@, 1, Len(@) - 1), !.ret = r]

RetBlock(b) == [Ret0 EXCEPT !.block = b]

RetType(t) == [Ret0 EXCEPT !.type = t]

RetDecl(t, n) == [Ret0 EXCEPT !.type = t, !.name = n]

RetSym(y) == [Ret0 EXCEPT !.sym = y]

\* ------------------------------------------------------- the block builder

NewBlock(label) ==
    [label |-> label, ops |-> <<>>, expr |-> NullSym,
     jump |-> [i \in {0, 1} |-> NULL], freed |-> FALSE]

IsBlock(s, b) == b \in DOMAIN s.blocks

\* block_init(label): a fresh block; the allocator may hand out again the
\* address of a block that was freed.
block_init(s, label) ==
    {[s EXCEPT !.blocks = Append(@, NewBlock(label)), !.v = Len(s.blocks) + 1]}
    \cup {[s EXCEPT !.blocks[b] = NewBlock(label), !.v = b]
              : b \in {i \in DOMAIN s.blocks : s.blocks[i].freed}}

\* free(b)
free(s, b) == [s EXCEPT !.blocks[b].freed = TRUE]

\* b->jump[i] = target
set_jump(s, b, i, target) ==
    IF IsBlock(s, b) THEN {[s EXCEPT !.blocks[b].jump[i] = target]}
    ELSE {Crash(s, "write through null block pointer")}

\* b->expr = sym
set_expr(s, b, sym) ==
    IF IsBlock(s, b) THEN {[s EXCEPT !.blocks[b].expr = sym]}
    ELSE {Crash(s, "write through null block pointer")}

\* ir_append(b, op)
ir_append(s, b, op) ==
    IF IsBlock(s, b) THEN {[s EXCEPT !.blocks[b].ops = Append(@, op)]}
    ELSE {Crash(s, "ir_append to null block")}

\* ---------------------------------------------------------- the type builder

SizeOf(kind) ==
    CASE kind = "CHAR_T" -> 1
      [] kind = "INT64_T" -> 8
      [] kind = "DOUBLE_T" -> 8
      [] kind = "POINTER" -> 8
      [] OTHER -> 0

type_init(kind) ==
    [type |-> kind, flags |-> {}, size |-> SizeOf(kind), length |-> 0,
     next |-> NullType, n_args |-> 0, args |-> <<>>, params |-> <<>>]

IsScalar(t) == t.type \in {"CHAR_T", "INT64_T", "DOUBLE_T", "VOID_T"}

Rank(t) ==
    CASE t.type = "DOUBLE_T" -> 3
      [] t.type = "INT64_T" -> 2
      [] t.type = "CHAR_T" -> 1
      [] OTHER -> 0

\* Array-to-pointer decay.
Decay(t) ==
    IF t.type = "ARRAY" THEN [type_init("POINTER") EXCEPT !.next = t.next] ELSE t

\* type_combine(a, b): the usual arithmetic conversion, arrays decayed,
\* no qualifiers on the result.
type_combine(a, b) ==
    LET x == Decay(a)
        y == Decay(b)
        r == IF ~IsScalar(x) THEN x
             ELSE IF ~IsScalar(y) THEN y
             ELSE IF Rank(y) > Rank(x) THEN y ELSE x
    IN  [r EXCEPT !.flags = {}]

\* type_deref(t): t.next
type_deref(t) == t.next

\* --------------------------------------------------------- the symbol table

Depth(s) == Len(s.scopes) - 1

Symbol(name, type, depth) ==
    [null |-> FALSE, name |-> name, type |-> type, depth |-> depth,
     is_immediate |-> FALSE, longval |-> 0]

push_scope(s) == [s EXCEPT !.scopes = Append(@, {})]

pop_scope(s) == [s EXCEPT !.scopes = SubSeq(@, 1, Len(@) - 1)]

Bound(frame, name) == {y \in frame : y.name = name}

\* sym_add(name, type): the binding of name at the current depth, made if
\* there is none.  With a null name the table either dereferences it or
\* records a symbol no lookup finds.
sym_add(s, name, type) ==
    IF name = NoName
    THEN {Crash(s, "sym_add of a null name"), Val(s, Symbol(NoName, type, Depth(s)))}
    ELSE LET here == Bound(s.scopes[Len(s.scopes)], name)
         IN  IF here # {}
             THEN {Val(s, CHOOSE y \in here : TRUE)}
             ELSE LET y == Symbol(name, type, Depth(s))
                  IN  {[s EXCEPT !.scopes[Len(s.scopes)] = @ \cup {y}, !.v = y]}

\* sym_lookup(name): innermost binding first, or NULL.
sym_lookup(s, name) ==
    LET hits == {i \in DOMAIN s.scopes : Bound(s.scopes[i], name) # {}}
    IN  IF hits = {} \/ name = NoName THEN NullSym
        ELSE LET d == CHOOSE i \in hits : \A j \in hits : j <= i
             IN  CHOOSE y \in Bound(s.scopes[d], name) : TRUE

sym_mktemp(s, type) == Symbol(NoName, type, Depth(s))

\* Decimal text to its value.
DecodeLong(lexeme) ==
    CASE lexeme = "0" -> 0
      [] lexeme = "1" -> 1
      [] lexeme = "2" -> 2
      [] lexeme = "3" -> 3
      [] OTHER -> 0

sym_mkimmediate_long(s, val) ==
    [Symbol(NoName, type_init("INT64_T"), Depth(s)) EXCEPT
        !.is_immediate = TRUE, !.longval = val]

sym_mkimmediate(s, kind, lexeme) ==
    [Symbol(NoName, type_init(kind), Depth(s)) EXCEPT
        !.is_immediate = TRUE, !.longval = DecodeLong(lexeme)]

\* ------------------------------------------------------------------ frames

compile_frame == [fn |-> "compile", pc |-> "entry", fun |-> NULL]

declaration_frame ==
    [fn |-> "declaration", pc |-> "entry", function |-> NULL, symbol |-> NullSym,
     type |-> NullType, base |-> NullType, name |-> NoName]

declaration_specifiers_frame ==
    [fn |-> "declaration_specifiers", pc |-> "entry", type |-> NullType, flags |-> {}]

declarator_frame(base) ==
    [fn |-> "declarator", pc |-> "entry", base |-> base]

pointer_frame(base) ==
    [fn |-> "pointer", pc |-> "entry", base |-> base, type |-> NullType]

direct_declarator_array_frame(base) ==
    [fn |-> "direct_declarator_array", pc |-> "entry", base |-> base,
     length |-> 0, throwaway |-> NULL]

direct_declarator_frame(base) ==
    [fn |-> "direct_declarator", pc |-> "entry", base |-> base, type |-> base,
     name |-> NoName]

parameter_list_frame(base) ==
    [fn |-> "parameter_list", pc |-> "entry", base |-> base, args |-> <<>>,
     params |-> <<>>, decl |-> NullType]

block_frame(parent) == [fn |-> "block", pc |-> "entry", parent |-> parent]

statement_frame(parent) ==
    [fn |-> "statement", pc |-> "entry", parent |-> parent, node |-> NULL,
     t |-> "NONE", right |-> NULL, next |-> NULL, left |-> NULL, top |-> NULL,
     body |-> NULL, increment |-> NULL, old_break_target |-> NULL,
     old_continue_target |-> NULL]

identifier_frame == [fn |-> "identifier", pc |-> "entry"]

\* The frame of one of the expression functions that lower a binary operator.
binary_frame(fn, block) ==
    [fn |-> fn, pc |-> "entry", block |-> block, l |-> NullSym, optype |-> "NONE"]

assignment_expression_frame(block) == binary_frame("assignment_expression", block)

conditional_expression_frame(block) ==
    [fn |-> "conditional_expression", pc |-> "entry", block |-> block, sym |-> NullSym]

logical_expression_frame(block) == binary_frame("logical_expression", block)

or_expression_frame(block) == binary_frame("or_expression", block)

and_expression_frame(block) == binary_frame("and_expression", block)

additive_expression_frame(block) == binary_frame("additive_expression", block)

multiplicative_expression_frame(block) ==
    binary_frame("multiplicative_expression", block)

postfix_expression_frame(block) ==
    [fn |-> "postfix_expression", pc |-> "entry", block |-> block, root |-> NullSym]

primary_expression_frame(block) ==
    [fn |-> "primary_expression", pc |-> "entry", block |-> block]

\* The functions that only forward to the next level of the grammar.
expression_frame(block) == assignment_expression_frame(block)

constant_expression_frame(block) == conditional_expression_frame(block)

unary_expression_frame(block) == postfix_expression_frame(block)

cast_expression_frame(block) == unary_expression_frame(block)

shift_expression_frame(block) == additive_expression_frame(block)

relational_expression_frame(block) == shift_expression_frame(block)

equality_expression_frame(block) == relational_expression_frame(block)

\* ------------------------------------------------------------ declarations

\* compile(), after a declaration() call returned.
\* A compile() that hands every result of declaration() to output_block().
compile_emit_unguarded(s, fun) == [s EXCEPT !.outputs = Append(@, fun)]

\* if (fun != NULL) { output_block(fun); puts(""); }
compile_emit(s, fun) ==
    IF fun # NULL THEN [s EXCEPT !.outputs = Append(@, fun)] ELSE s

compile_loop(s) ==
    LET fun == s.ret.block
        s1 == compile_emit(s, fun)
        s2 == SetTop(s1, [Top(s1) EXCEPT !.fun = fun])
    IN  Then(peek(s2), LAMBDA p :
            IF ~p.eof
            THEN {Call(p, "declaration_done", declaration_frame)}
            ELSE {[Return(pop_scope(p), Ret0) EXCEPT
                      !.status = "done", !.exit_code = 0]})

compile_body(s) ==
    CASE Top(s).pc = "entry" ->
            {Call(push_scope(s), "declaration_done", declaration_frame)}
      [] Top(s).pc = "declaration_done" -> compile_loop(s)

\* consume(','); and the next round of declaration()'s loop.
declaration_next(s) ==
    Then(consume(s, ","), LAMBDA c :
        {Call(c, "declarator_done", declarator_frame(Top(c).base))})

RECURSIVE add_params(_, _, _)
\* The loop over the parameters of a function definition.
add_params(s, type, i) ==
    IF i > type.n_args THEN {s}
    ELSE IF type.params[i] = NoName
    THEN {Exit(s, 1, "Missing parameter name")}
    ELSE Then(sym_add(s, type.params[i], type.args[i]),
              LAMBDA a : add_params(a, type, i + 1))

\* declaration(), after declarator() returned: sym_add and the switch.
declaration_switch(s) ==
    LET type == s.ret.type
        name == s.ret.name
    IN  Then(sym_add(s, name, type), LAMBDA a :
          LET symbol == a.v
              s1 == SetTop(a, [Top(a) EXCEPT !.type = type, !.name = name,
                                              !.symbol = symbol])
          IN  Then(peek(s1), LAMBDA p :
                CASE p.v = ";" ->
                       Then(consume(p, ";"), LAMBDA c : {Return(c, RetBlock(NULL))})
                  [] p.v = "=" ->
                       Then(consume(p, "="), LAMBDA c :
                           {Call(c, "initializer_done",
                                 assignment_expression_frame(NULL))})
                  [] p.v = "{" ->
                       IF type.type # "FUNCTION" \/ symbol.depth > 0
                       THEN {Exit(p, 1, "Invalid function definition")}
                       ELSE Then(block_init(p, name), LAMBDA b :
                              LET s2 == push_scope(
                                         SetTop(b, [Top(b) EXCEPT !.function = b.v]))
                              IN  Then(add_params(s2, type, 1), LAMBDA q :
                                     {Call(q, "body_done", block_frame(b.v))}))
                  [] OTHER -> declaration_next(p)))

declaration_body(s) ==
    CASE Top(s).pc = "entry" ->
            {Call(s, "specifiers_done", declaration_specifiers_frame)}
      [] Top(s).pc = "specifiers_done" ->
            {Call(SetTop(s, [Top(s) EXCEPT !.base = s.ret.type]), "declarator_done",
                  declarator_frame(s.ret.type))}
      [] Top(s).pc = "declarator_done" -> declaration_switch(s)
      [] Top(s).pc = "initializer_done" ->
            Then(peek(s), LAMBDA p :
                IF p.v # ","
                THEN Then(consume(p, ";"), LAMBDA c : {Return(c, RetBlock(NULL))})
                ELSE declaration_next(p))
      [] Top(s).pc = "body_done" ->
            {Return(pop_scope(s), RetBlock(Top(s).function))}

StorageClass == {"AUTO", "REGISTER", "STATIC", "EXTERN", "TYPEDEF"}

SpecifierKind(k) ==
    CASE k = "CHAR" -> "CHAR_T"
      [] k \in {"SHORT", "INT", "LONG", "SIGNED", "UNSIGNED"} -> "INT64_T"
      [] k \in {"FLOAT", "DOUBLE"} -> "DOUBLE_T"
      [] k = "VOID" -> "VOID_T"
      [] OTHER -> "NONE"

Qualifier(k) ==
    CASE k = "CONST" -> {"CONST_Q"}
      [] k = "VOLATILE" -> {"VOLATILE_Q"}
      [] OTHER -> {}

\* One round of the loop of declaration_specifiers().
declaration_specifiers_body(s) ==
    Then(peek(s), LAMBDA p :
        LET f == Top(p)
            k == p.v
        IN  IF k \in StorageClass \/ SpecifierKind(k) # "NONE" \/ Qualifier(k) # {}
            THEN LET g == [f EXCEPT
                             !.type = IF SpecifierKind(k) # "NONE"
                                      THEN type_init(SpecifierKind(k)) ELSE @,
                             !.flags = @ \cup Qualifier(k)]
                 IN  Then(consume(SetTop(p, g), k), LAMBDA c : {Goto(c, "loop")})
            ELSE IF f.type.type = "NULL"
            THEN {Exit(p, 1, "Missing type specifier")}
            ELSE {Return(p, RetType([f.type EXCEPT !.flags = f.flags]))})

\* The loop of declarator() and its tail call.
declarator_loop(s) ==
    Then(peek(s), LAMBDA p :
        IF p.v = "*"
        THEN {Call(p, "pointer_done", pointer_frame(Top(p).base))}
        ELSE {Call(p, "direct_done", direct_declarator_frame(Top(p).base))})

declarator_body(s) ==
    CASE Top(s).pc = "entry" -> declarator_loop(s)
      [] Top(s).pc = "pointer_done" ->
            declarator_loop(SetTop(s, [Top(s) EXCEPT !.base = s.ret.type]))
      [] Top(s).pc = "direct_done" -> {Return(s, s.ret)}

\* The qualifier loop of pointer().
pointer_qualifiers(s) ==
    Then(peek(s), LAMBDA p :
        IF p.v \in {"CONST", "VOLATILE"}
        THEN Then(readtoken(p), LAMBDA r :
                {SetTop(r, [Top(r) EXCEPT !.type.flags = @ \cup Qualifier(r.v.type),
                                           !.pc = "qualifiers"])})
        ELSE {Return(p, RetType(Top(p).type))})

pointer_body(s) ==
    CASE Top(s).pc = "entry" ->
            LET type == [type_init("POINTER") EXCEPT !.next = Top(s).base]
            IN  Then(consume(SetTop(s, [Top(s) EXCEPT !.type = type]), "*"),
                     pointer_qualifiers)
      [] Top(s).pc = "qualifiers" -> pointer_qualifiers(s)

get_symbol_constant_value(symbol) ==
    symbol.type.type = "INT64_T" /\ symbol.is_immediate

\* An ARRAY node whose size ignores the dimensions below it.
array_size_flat(base) == base.size

\* parse.c:247: the size field of a new ARRAY node over base.
array_size(base) ==
    IF base.type = "ARRAY" THEN base.size * base.length ELSE base.size

\* consume(']') and the recursive call for the following dimensions.
direct_declarator_array_rest(s, length) ==
    Then(consume(SetTop(s, [Top(s) EXCEPT !.length = length]), "]"), LAMBDA c :
        {Call(c, "inner_done", direct_declarator_array_frame(Top(c).base))})

direct_declarator_array_body(s) ==
    CASE Top(s).pc = "entry" ->
            Then(peek(s), LAMBDA p :
                IF p.v = "["
                THEN Then(consume(p, "["), LAMBDA c : {Goto(c, "dimension")})
                ELSE {Return(p, RetType(Top(p).base))})
      [] Top(s).pc = "dimension" ->
            Then(peek(s), LAMBDA p :
                IF p.v # "]"
                THEN Then(block_init(p, NoName), LAMBDA b :
                        {Call(SetTop(b, [Top(b) EXCEPT !.throwaway = b.v]),
                              "length_done", constant_expression_frame(b.v))})
                ELSE direct_declarator_array_rest(p, 0))
      [] Top(s).pc = "length_done" ->
            LET expr == s.ret.sym
            IN  IF ~get_symbol_constant_value(expr)
                THEN {Exit(s, 1, "Array declaration must be a compile time constant")}
                ELSE IF expr.longval < 1
                THEN {Exit(s, 1, "Invalid array size")}
                ELSE direct_declarator_array_rest(s, expr.longval)
      [] Top(s).pc = "inner_done" ->
            LET base == s.ret.type
                root == [type_init("ARRAY") EXCEPT
                            !.next = base, !.length = Top(s).length,
                            !.size = array_size(base)]
            IN  {Return(s, RetType(root))}

\* The suffix loop of direct_declarator().
direct_declarator_suffix(s) ==
    Then(peek(s), LAMBDA p :
        CASE p.v = "[" ->
               {Call(p, "array_done", direct_declarator_array_frame(Top(p).base))}
          [] p.v = "(" ->
               Then(consume(p, "("), LAMBDA c :
                   {Call(c, "params_done", parameter_list_frame(Top(c).base))})
          [] OTHER -> {Return(p, RetDecl(Top(p).type, Top(p).name))})

direct_declarator_body(s) ==
    CASE Top(s).pc = "entry" ->
            Then(peek(s), LAMBDA p :
                CASE p.v = "IDENTIFIER" ->
                       Then(readtoken(p), LAMBDA r :
                           {SetTop(r, [Top(r) EXCEPT !.name = r.v.value,
                                                     !.pc = "suffix"])})
                  [] p.v = "(" ->
                       Then(consume(p, "("), LAMBDA c :
                           {Call(c, "paren_done", declarator_frame(Top(c).base))})
                  [] OTHER -> direct_declarator_suffix(p))
      [] Top(s).pc = "paren_done" ->
            Then(consume(SetTop(s, [Top(s) EXCEPT !.type = s.ret.type,
                                                  !.name = s.ret.name]), ")"),
                 direct_declarator_suffix)
      [] Top(s).pc = "suffix" -> direct_declarator_suffix(s)
      [] Top(s).pc = "array_done" ->
            direct_declarator_suffix(
                SetTop(s, [Top(s) EXCEPT !.type = s.ret.type, !.base = s.ret.type]))
      [] Top(s).pc = "params_done" ->
            Then(consume(SetTop(s, [Top(s) EXCEPT !.type = s.ret.type,
                                                  !.base = s.ret.type]), ")"),
                 LAMBDA c : {Goto(c, "suffix")})

\* parameter_list(): the FUNCTION node built after the loop.
parameter_list_finish(s) ==
    LET f == Top(s)
        type == [type_init("FUNCTION") EXCEPT
                    !.next = f.base, !.n_args = Len(f.args), !.args = f.args,
                    !.params = f.params]
    IN  {Return(s, RetType(type))}

\* The head of the loop of parameter_list().
parameter_list_loop(s) ==
    Then(peek(s), LAMBDA p :
        IF p.v # ")"
        THEN {Call(p, "specifiers_done", declaration_specifiers_frame)}
        ELSE parameter_list_finish(p))

parameter_list_body(s) ==
    CASE Top(s).pc = "entry" -> parameter_list_loop(s)
      [] Top(s).pc = "specifiers_done" ->
            {Call(SetTop(s, [Top(s) EXCEPT !.decl = s.ret.type]), "declarator_done",
                  declarator_frame(s.ret.type))}
      [] Top(s).pc = "declarator_done" ->
            LET s1 == SetTop(s, [Top(s) EXCEPT !.args = Append(@, s.ret.type),
                                               !.params = Append(@, s.ret.name)])
            IN  Then(peek(s1), LAMBDA p :
                    IF p.v # "," THEN parameter_list_finish(p)
                    ELSE Then(consume(p, ","), LAMBDA c : {Goto(c, "after_comma")}))
      [] Top(s).pc = "after_comma" ->
            Then(peek(s), LAMBDA p :
                CASE p.v = ")" -> {Exit(p, 1, "Trailing comma in parameter list")}
                  [] p.v = "DOTS" ->
                       Then(consume(p, "DOTS"), parameter_list_finish)
                  [] OTHER -> parameter_list_loop(p))

\* -------------------------------------------------------------- expressions

Op(type, a, b, c) == [type |-> type, a |-> a, b |-> b, c |-> c]

identifier_body(s) ==
    Then(readtoken(s), LAMBDA r :
        LET sym == sym_lookup(r, r.v.value)
        IN  IF sym.null THEN {Exit(r, 0, "Undefined symbol")}
            ELSE {Return(r, RetSym(sym))})

assignment_expression_body(s) ==
    CASE Top(s).pc = "entry" ->
            {Call(s, "left_done", conditional_expression_frame(Top(s).block))}
      [] Top(s).pc = "left_done" ->
            Then(peek(SetTop(s, [Top(s) EXCEPT !.l = s.ret.sym])), LAMBDA p :
                IF p.v = "="
                THEN Then(consume(p, "="), LAMBDA c :
                        {Call(c, "right_done",
                              assignment_expression_frame(Top(c).block))})
                ELSE {Return(p, RetSym(Top(p).l))})
      [] Top(s).pc = "right_done" ->
            Then(ir_append(s, Top(s).block,
                           Op("IR_ASSIGN", Top(s).l, s.ret.sym, NullSym)),
                 LAMBDA a : {Return(a, RetSym(Top(a).l))})

conditional_expression_body(s) ==
    CASE Top(s).pc = "entry" ->
            {Call(s, "cond_done", logical_expression_frame(Top(s).block))}
      [] Top(s).pc = "cond_done" ->
            Then(peek(SetTop(s, [Top(s) EXCEPT !.sym = s.ret.sym])), LAMBDA p :
                IF p.v = "?"
                THEN Then(consume(p, "?"), LAMBDA c :
                        {Call(c, "then_done", expression_frame(Top(c).block))})
                ELSE {Return(p, RetSym(Top(p).sym))})
      [] Top(s).pc = "then_done" ->
            Then(consume(s, ":"), LAMBDA c :
                {Call(c, "else_done", conditional_expression_frame(Top(c).block))})
      [] Top(s).pc = "else_done" -> {Return(s, RetSym(Top(s).sym))}

\* The loop shared by the functions that lower left-associative binary
\* operators: while the next token is one of the level's operators (OpOf
\* names its IR operation), read it, lower the right operand with Rhs and
\* append res = l op r.
binary_loop(s, Rhs(_), OpOf(_)) ==
    Then(peek(s), LAMBDA p :
        IF OpOf(p.v) # "NONE"
        THEN Then(readtoken(p), LAMBDA r :
                {Call(SetTop(r, [Top(r) EXCEPT !.optype = OpOf(r.v.type)]),
                      "right_done", Rhs(Top(r).block))})
        ELSE {Return(p, RetSym(Top(p).l))})

binary_body(s, Lhs(_), Rhs(_), OpOf(_)) ==
    CASE Top(s).pc = "entry" -> {Call(s, "left_done", Lhs(Top(s).block))}
      [] Top(s).pc = "left_done" ->
            binary_loop(SetTop(s, [Top(s) EXCEPT !.l = s.ret.sym]), Rhs, OpOf)
      [] Top(s).pc = "right_done" ->
            LET f == Top(s)
                r == s.ret.sym
                res == sym_mktemp(s, type_combine(f.l.type, r.type))
            IN  Then(ir_append(s, f.block, Op(f.optype, res, f.l, r)), LAMBDA a :
                    binary_loop(SetTop(a, [Top(a) EXCEPT !.l = res]), Rhs, OpOf))

logical_op(k) ==
    CASE k = "LOGICAL_AND" -> "IR_OP_LOGICAL_AND"
      [] k = "LOGICAL_OR" -> "IR_OP_LOGICAL_OR"
      [] OTHER -> "NONE"

logical_expression_body(s) ==
    binary_body(s, or_expression_frame, and_expression_frame, logical_op)

or_op(k) ==
    CASE k = "|" -> "IR_OP_BITWISE_OR"
      [] k = "^" -> "IR_OP_BITWISE_XOR"
      [] OTHER -> "NONE"

or_expression_body(s) ==
    binary_body(s, and_expression_frame, and_expression_frame, or_op)

and_op(k) == IF k = "&" THEN "IR_OP_BITWISE_AND" ELSE "NONE"

and_expression_body(s) ==
    binary_body(s, equality_expression_frame, and_expression_frame, and_op)

additive_op(k) ==
    CASE k = "+" -> "IR_OP_ADD"
      [] k = "-" -> "IR_OP_SUB"
      [] OTHER -> "NONE"

additive_expression_body(s) ==
    binary_body(s, multiplicative_expression_frame,
                multiplicative_expression_frame, additive_op)

multiplicative_op(k) ==
    CASE k = "*" -> "IR_OP_MUL"
      [] k = "/" -> "IR_OP_DIV"
      [] k = "%" -> "IR_OP_MOD"
      [] OTHER -> "NONE"

multiplicative_expression_body(s) ==
    binary_body(s, cast_expression_frame, cast_expression_frame, multiplicative_op)

\* The loop of postfix_expression().
postfix_expression_loop(s) ==
    Then(peek(s), LAMBDA p :
        CASE p.v = "[" ->
               Then(consume(p, "["), LAMBDA c :
                   {Call(c, "index_done", expression_frame(Top(c).block))})
          [] p.v \in {"(", "."} ->
               {Exit(p, 0, "not a valid postfix expression")}
          [] OTHER -> {Return(p, RetSym(Top(p).root))})

\* postfix_expression(), after the index expression: the address arithmetic,
\* consume(']') and the decay or the load.
postfix_expression_index(s) ==
    LET f == Top(s)
        l == s.ret.sym
        r0 == sym_mkimmediate_long(s, f.root.type.size)
        res == sym_mktemp(s, type_combine(l.type, r0.type))
        r == sym_mktemp(s, type_combine(f.root.type, res.type))
    IN  Then(ir_append(s, f.block, Op("IR_OP_MUL", res, l, r0)), LAMBDA m :
        Then(ir_append(m, f.block, Op("IR_OP_ADD", r, f.root, res)), LAMBDA a :
        Then(consume(a, "]"), LAMBDA c :
            IF r.type.next.type = "NULL"
            THEN {Crash(c, "read through null type pointer")}
            ELSE IF r.type.next.type = "ARRAY"
            THEN {SetTop(c, [Top(c) EXCEPT
                                !.root = [r EXCEPT !.type = type_deref(r.type)],
                                !.pc = "loop"])}
            ELSE IF r.type.type # "POINTER"
            THEN {Exit(c, 0, "Cannot dereference non-pointer")}
            ELSE LET d == sym_mktemp(c, r.type.next)
                 IN  Then(ir_append(c, f.block, Op("IR_DEREF", d, r, NullSym)),
                          LAMBDA e : {SetTop(e, [Top(e) EXCEPT !.root = d,
                                                              !.pc = "loop"])}))))

postfix_expression_body(s) ==
    CASE Top(s).pc = "entry" ->
            {Call(s, "primary_done", primary_expression_frame(Top(s).block))}
      [] Top(s).pc = "primary_done" ->
            postfix_expression_loop(SetTop(s, [Top(s) EXCEPT !.root = s.ret.sym]))
      [] Top(s).pc = "index_done" -> postfix_expression_index(s)
      [] Top(s).pc = "loop" -> postfix_expression_loop(s)

primary_expression_body(s) ==
    CASE Top(s).pc = "entry" ->
            Then(readtoken(s), LAMBDA r :
                CASE r.v.type = "IDENTIFIER" ->
                       LET symbol == sym_lookup(r, r.v.value)
                       IN  IF symbol.null
                           THEN {Exit(r, 0, "Undefined symbol")}
                           ELSE {Return(r, RetSym(symbol))}
                  [] r.v.type = "INTEGER" ->
                       {Return(r, RetSym(sym_mkimmediate(r, "INT64_T", r.v.value)))}
                  [] r.v.type = "(" ->
                       {Call(r, "paren_done", expression_frame(Top(r).block))}
                  [] OTHER -> {Exit(r, 0, "not a valid primary expression")})
      [] Top(s).pc = "paren_done" ->
            LET symbol == s.ret.sym
            IN  Then(consume(s, ")"), LAMBDA c : {Return(c, RetSym(symbol))})

\* --------------------------------------------------------------- statements

block_loop(s) ==
    Then(peek(s), LAMBDA p :
        IF p.v # "}"
        THEN {Call(p, "statement_done", statement_frame(Top(p).parent))}
        ELSE Then(consume(p, "}"), LAMBDA c : {Return(c, RetBlock(Top(c).parent))}))

block_body(s) ==
    CASE Top(s).pc = "entry" -> Then(consume(s, "{"), block_loop)
      [] Top(s).pc = "statement_done" ->
            block_loop(SetTop(s, [Top(s) EXCEPT !.parent = s.ret.block]))

\* The values an uninitialized block_t pointer may hold: the address of any
\* block ever allocated, or one that cannot be dereferenced.
Indeterminate(s) == DOMAIN s.blocks \cup {NULL}

\* break out of the switch of statement() with node set.
statement_leave(s, node) == SetTop(s, [Top(s) EXCEPT !.node = node, !.pc = "return"])

\* break out of the switch of statement() with node never assigned.
statement_leave_unset(s) == {statement_leave(s, g) : g \in Indeterminate(s)}

\* node = block_init(NULL); break;
statement_leave_orphan(s) ==
    Then(block_init(s, NoName), LAMBDA b : {statement_leave(b, b.v)})

\* Enter a loop: save the targets of the enclosing loop and set the new ones.
enter_loop(s, next, top) ==
    [SetTop(s, [Top(s) EXCEPT !.old_break_target = s.break_target,
                              !.old_continue_target = s.continue_target])
        EXCEPT !.break_target = next, !.continue_target = top]

\* Restore previous nested loop; node = next.
leave_loop(s) ==
    statement_leave([s EXCEPT !.break_target = Top(s).old_break_target,
                              !.continue_target = Top(s).old_continue_target],
                    Top(s).next)

\* parse.c:518: the target a break or continue statement jumps to.
jump_target(s, t) == IF t = "CONTINUE" THEN s.continue_target ELSE s.break_target

statement_if(s) ==
    Then(block_init(s, NoName), LAMBDA b1 :
    Then(block_init(b1, NoName), LAMBDA b2 :
    Then(readtoken(SetTop(b2, [Top(b2) EXCEPT !.right = b1.v, !.next = b2.v])),
         LAMBDA r : {Goto(r, "if_paren")})))

statement_while_do(s) ==
    Then(block_init(s, NoName), LAMBDA b1 :
    Then(block_init(b1, NoName), LAMBDA b2 :
    Then(block_init(b2, NoName), LAMBDA b3 :
        LET top == b1.v
            body == b2.v
            next == b3.v
            s1 == SetTop(b3, [Top(b3) EXCEPT !.top = top, !.body = body,
                                              !.next = next])
        IN  Then(set_jump(s1, Top(s1).parent, 0, top), LAMBDA j :
            Then(readtoken(enter_loop(j, next, top)), LAMBDA r :
                IF Top(r).t = "WHILE" THEN {Goto(r, "while_paren")}
                ELSE {Call(r, "do_body_done", statement_frame(top))})))))

statement_for(s) ==
    Then(block_init(s, NoName), LAMBDA b1 :
    Then(block_init(b1, NoName), LAMBDA b2 :
    Then(block_init(b2, NoName), LAMBDA b3 :
    Then(block_init(b3, NoName), LAMBDA b4 :
        LET s1 == SetTop(b4, [Top(b4) EXCEPT !.top = b1.v, !.body = b2.v,
                                              !.increment = b3.v, !.next = b4.v])
        IN  Then(consume(enter_loop(s1, b4.v, b1.v), "FOR"),
                 LAMBDA c : {Goto(c, "for_paren")})))))

\* statement(): enum token_type t = peek(); and the head of each case.
statement_switch(s) ==
    Then(peek(s), LAMBDA p :
        LET t == p.v
            parent == Top(p).parent
            q == SetTop(p, [Top(p) EXCEPT !.t = t])
        IN  CASE t = ";" ->
                   Then(consume(q, ";"), LAMBDA c : {statement_leave(c, parent)})
              [] t = "{" -> {Call(push_scope(q), "block_done", block_frame(parent))}
              [] t \in {"SWITCH", "IF"} -> statement_if(q)
              [] t \in {"WHILE", "DO"} -> statement_while_do(q)
              [] t = "FOR" -> statement_for(q)
              [] t = "GOTO" ->
                   Then(consume(q, "GOTO"), LAMBDA c :
                       {Call(c, "goto_done", identifier_frame)})
              [] t \in {"CONTINUE", "BREAK"} ->
                   Then(readtoken(q), LAMBDA r :
                   Then(set_jump(r, parent, 0, jump_target(r, t)), LAMBDA j :
                       {Goto(j, "jump_semicolon")}))
              [] t = "RETURN" ->
                   Then(consume(q, "RETURN"), LAMBDA c : {Goto(c, "return_expr")})
              [] t \in {"CASE", "DEFAULT"} -> statement_leave_unset(q)
              [] t \in {"IDENTIFIER", "INTEGER", "STRING", "("} ->
                   {Call(q, "expr_done", expression_frame(parent))}
              [] OTHER -> {Call(q, "decl_done", declaration_frame)})

\* IF/SWITCH, after the condition: the two edges of the branch and the
\* statement of the true branch.
statement_if_branch(s) ==
    LET f == Top(s)
    IN  Then(set_expr(s, f.parent, s.ret.sym), LAMBDA e :
        Then(consume(e, ")"), LAMBDA c :
        Then(set_jump(c, f.parent, 0, f.next), LAMBDA j0 :
        Then(set_jump(j0, f.parent, 1, f.right), LAMBDA j1 :
            {Call(j1, "if_then_done", statement_frame(f.right))}))))

\* IF/SWITCH, after the true branch: splice its tail and the else branch.
statement_if_else(s) ==
    LET right == s.ret.block
        s1 == SetTop(s, [Top(s) EXCEPT !.right = right])
        f == Top(s1)
    IN  Then(set_jump(s1, right, 0, f.next), LAMBDA j :
        Then(peek(j), LAMBDA p :
            IF p.v = "ELSE"
            THEN Then(block_init(p, NoName), LAMBDA b :
                 Then(consume(SetTop(b, [Top(b) EXCEPT !.left = b.v]), "ELSE"),
                      LAMBDA c :
                 Then(set_jump(c, f.parent, 0, b.v), LAMBDA k :
                     {Call(k, "if_else_done", statement_frame(b.v))})))
            ELSE {statement_leave(p, f.next)}))

\* An else branch whose tail is left unspliced.
statement_if_join_unspliced(s) ==
    {statement_leave(SetTop(s, [Top(s) EXCEPT !.left = s.ret.block]), Top(s).next)}

\* IF/SWITCH, after the else branch.
statement_if_join(s) ==
    LET left == s.ret.block
        s1 == SetTop(s, [Top(s) EXCEPT !.left = left])
    IN  Then(set_jump(s1, left, 0, Top(s1).next), LAMBDA j :
            {statement_leave(j, Top(j).next)})

\* WHILE, after the condition.
statement_while_branch(s) ==
    LET f == Top(s)
    IN  Then(set_expr(s, f.top, s.ret.sym), LAMBDA e :
        Then(consume(e, ")"), LAMBDA c :
        Then(set_jump(c, f.top, 0, f.next), LAMBDA j0 :
        Then(set_jump(j0, f.top, 1, f.body), LAMBDA j1 :
            {Call(j1, "while_body_done", statement_frame(f.body))}))))

\* WHILE, after the body: loop back.
statement_while_back(s) ==
    LET body == s.ret.block
        s1 == SetTop(s, [Top(s) EXCEPT !.body = body])
    IN  Then(set_jump(s1, body, 0, Top(s1).top), LAMBDA j : {leave_loop(j)})

\* DO, after the condition: the tail of the body becomes the branch.
statement_do_branch(s) ==
    LET f == Top(s)
    IN  Then(set_expr(s, f.body, s.ret.sym), LAMBDA e :
        Then(set_jump(e, f.body, 0, f.next), LAMBDA j0 :
        Then(set_jump(j0, f.body, 1, f.top), LAMBDA j1 :
        Then(consume(j1, ")"), LAMBDA c : {leave_loop(c)}))))

\* FOR, the condition clause.
statement_for_cond(s) ==
    Then(peek(s), LAMBDA p :
        LET f == Top(p)
        IN  IF p.v # ";"
            THEN Then(set_jump(p, f.parent, 0, f.top), LAMBDA j :
                    {Call(j, "for_cond_done", expression_frame(f.top))})
            ELSE Then(set_jump(free(p, f.top), f.parent, 0, f.body), LAMBDA j :
                 Then(consume(SetTop(j, [Top(j) EXCEPT !.top = f.body]), ";"),
                      LAMBDA c : {Goto(c, "for_incr")})))

\* FOR, after the condition.
statement_for_branch(s) ==
    LET f == Top(s)
    IN  Then(set_expr(s, f.top, s.ret.sym), LAMBDA e :
        Then(set_jump(e, f.top, 0, f.next), LAMBDA j0 :
        Then(set_jump(j0, f.top, 1, f.body), LAMBDA j1 :
        Then(consume(j1, ";"), LAMBDA c : {Goto(c, "for_incr")}))))

\* FOR, the increment clause.
statement_for_incr(s) ==
    Then(peek(s), LAMBDA p :
        IF p.v # ")"
        THEN {Call(p, "for_incr_done", expression_frame(Top(p).increment))}
        ELSE Then(consume(p, ")"), LAMBDA c :
                {Call(c, "for_body_done", statement_frame(Top(c).body))}))

\* FOR, after the increment expression.
statement_for_incr_done(s) ==
    Then(set_jump(s, Top(s).increment, 0, Top(s).top), LAMBDA j :
    Then(consume(j, ")"), LAMBDA c :
        {Call(c, "for_body_done", statement_frame(Top(c).body))}))

\* FOR, after the body: splice its tail to the increment.
statement_for_back(s) ==
    LET body == s.ret.block
        s1 == SetTop(s, [Top(s) EXCEPT !.body = body])
    IN  Then(set_jump(s1, body, 0, Top(s1).increment), LAMBDA j : {leave_loop(j)})

\* A compound statement that forgets to leave its scope.
statement_block_done_unpopped(s) == {statement_leave(s, s.ret.block)}

\* node = block(parent); pop_scope(); break;
statement_block_done(s) == {statement_leave(pop_scope(s), s.ret.block)}

statement_body(s) ==
    CASE Top(s).pc = "entry" -> statement_switch(s)
      [] Top(s).pc = "block_done" -> statement_block_done(s)
      [] Top(s).pc = "if_paren" ->
            Then(consume(s, "("), LAMBDA c :
                {Call(c, "if_cond_done", expression_frame(Top(c).parent))})
      [] Top(s).pc = "if_cond_done" -> statement_if_branch(s)
      [] Top(s).pc = "if_then_done" -> statement_if_else(s)
      [] Top(s).pc = "if_else_done" -> statement_if_join(s)
      [] Top(s).pc = "while_paren" ->
            Then(consume(s, "("), LAMBDA c :
                {Call(c, "while_cond_done", expression_frame(Top(c).top))})
      [] Top(s).pc = "while_cond_done" -> statement_while_branch(s)
      [] Top(s).pc = "while_body_done" -> statement_while_back(s)
      [] Top(s).pc = "do_body_done" ->
            Then(consume(SetTop(s, [Top(s) EXCEPT !.body = s.ret.block]), "WHILE"),
                 LAMBDA c : {Goto(c, "do_paren")})
      [] Top(s).pc = "do_paren" ->
            Then(consume(s, "("), LAMBDA c :
                {Call(c, "do_cond_done", expression_frame(Top(c).body))})
      [] Top(s).pc = "do_cond_done" -> statement_do_branch(s)
      [] Top(s).pc = "for_paren" ->
            Then(consume(s, "("), LAMBDA c : {Goto(c, "for_init")})
      [] Top(s).pc = "for_init" ->
            Then(peek(s), LAMBDA p :
                IF p.v # ";"
                THEN {Call(p, "for_init_done", expression_frame(Top(p).parent))}
                ELSE Then(consume(p, ";"), LAMBDA c : {Goto(c, "for_cond")}))
      [] Top(s).pc = "for_init_done" ->
            Then(consume(s, ";"), LAMBDA c : {Goto(c, "for_cond")})
      [] Top(s).pc = "for_cond" -> statement_for_cond(s)
      [] Top(s).pc = "for_cond_done" -> statement_for_branch(s)
      [] Top(s).pc = "for_incr" -> statement_for_incr(s)
      [] Top(s).pc = "for_incr_done" -> statement_for_incr_done(s)
      [] Top(s).pc = "for_body_done" -> statement_for_back(s)
      [] Top(s).pc = "goto_done" ->
            Then(consume(s, ";"), statement_leave_unset)
      [] Top(s).pc = "jump_semicolon" ->
            Then(consume(s, ";"), statement_leave_orphan)
      [] Top(s).pc = "return_expr" ->
            Then(peek(s), LAMBDA p :
                IF p.v # ";"
                THEN {Call(p, "return_expr_done", expression_frame(Top(p).parent))}
                ELSE Then(consume(p, ";"), statement_leave_orphan))
      [] Top(s).pc = "return_expr_done" ->
            Then(set_expr(s, Top(s).parent, s.ret.sym), LAMBDA e :
            Then(consume(e, ";"), statement_leave_orphan))
      [] Top(s).pc = "expr_done" ->
            Then(consume(s, ";"), LAMBDA c : {statement_leave(c, Top(c).parent)})
      [] Top(s).pc = "decl_done" -> {statement_leave(s, Top(s).parent)}
      [] Top(s).pc = "return" -> {Return(s, RetBlock(Top(s).node))}

\* ------------------------------------------------------------ input profiles
\* The inputs the lexer delivers: a fixed head (pre), then at most fuel
\* tokens drawn from alpha, then the end of the input.

Profile(pre, alpha, fuel) ==
    [pre |-> pre, alpha |-> alpha, fuel |-> fuel, read |-> <<>>]

\* "int f ( ) {": the head of a function definition.
FunHead ==
    <<Keyword("INT"), Ident("f"), Punct("("), Punct(")"), Punct("{")>>

\* Any translation unit of declarations, the empty one included.
DeclProfile ==
    Profile(<<>>,
            {Keyword("INT"), Ident("x"), Integer("2"), Punct(";"), Punct(","),
             Punct("="), Punct("+"), Punct("("), Punct(")"), Punct("{"),
             Punct("}")},
            MaxDeclTokens)

\* Array declarators over a char and over an int.
ArrayProfiles ==
    {Profile(<<Keyword(k), Ident("x")>>,
             {Integer("0"), Integer("2"), Integer("3"), Punct("["), Punct("]"),
              Punct(";")},
             MaxArrayTokens) : k \in {"CHAR", "INT"}}

\* Function bodies made of loops, break and continue.
LoopProfile ==
    Profile(FunHead,
            {Keyword("FOR"), Keyword("WHILE"), Keyword("DO"), Keyword("BREAK"),
             Keyword("CONTINUE"), Integer("2"), Punct(";"), Punct("("),
             Punct(")"), Punct("{"), Punct("}")},
            MaxLoopTokens)

\* Function bodies made of if/else, goto and case.
IfProfile ==
    Profile(FunHead,
            {Keyword("IF"), Keyword("ELSE"), Keyword("GOTO"), Keyword("CASE"),
             Ident("f"), Integer("2"), Punct(";"), Punct("("), Punct(")"),
             Punct("}")},
            MaxIfTokens)

\* A function returning a pointer, then the body of a second function.
UnitProfile ==
    Profile(<<Keyword("INT"), Punct("*"), Ident("f"), Punct("("), Punct(")"),
              Punct("{"), Punct("}"), Keyword("INT"), Ident("g"), Punct("("),
              Punct(")"), Punct("{")>>,
            {Keyword("RETURN"), Ident("f"), Ident("x"), Punct(";"), Punct("}")},
            MaxUnitTokens)

\* "return 2 ;" bare and in braces.
ReturnBranches ==
    {<<Keyword("RETURN"), Integer("2"), Punct(";")>>,
     <<Punct("{"), Keyword("RETURN"), Integer("2"), Punct(";"), Punct("}")>>}

\* An if statement with a return statement as its true branch, and the
\* tokens of its else branch.
ReturnProfiles ==
    {Profile(FunHead \o <<Keyword("IF"), Punct("("), Integer("2"), Punct(")")>>
                 \o branch \o <<Keyword("ELSE")>>,
             {Keyword("RETURN"), Integer("3"), Punct(";"), Punct("{"),
              Punct("}")},
             MaxReturnTokens) : branch \in ReturnBranches}

Profiles ==
    {DeclProfile, LoopProfile, IfProfile, UnitProfile}
        \cup ArrayProfiles \cup ReturnProfiles

\* ------------------------------------------------------------ the machine

Init ==
    /\ lexer \in Profiles
    /\ peek_value = NoToken
    /\ has_value = FALSE
    /\ eof = FALSE
    /\ stack = <<compile_frame>>
    /\ ret = Ret0
    /\ blocks = <<>>
    /\ scopes = <<>>
    /\ break_target = NULL
    /\ continue_target = NULL
    /\ outputs = <<>>
    /\ status = "running"
    /\ exit_code = 0 - 1
    /\ diag = ""

\* The function fn is the one running.
Running(fn) == status = "running" /\ stack # <<>> /\ stack[Len(stack)].fn = fn

compile ==
    /\ Running("compile")
    /\ \E n \in compile_body(State) : Commit(n)

declaration ==
    /\ Running("declaration")
    /\ \E n \in declaration_body(State) : Commit(n)

declaration_specifiers ==
    /\ Running("declaration_specifiers")
    /\ \E n \in declaration_specifiers_body(State) : Commit(n)

declarator ==
    /\ Running("declarator")
    /\ \E n \in declarator_body(State) : Commit(n)

pointer ==
    /\ Running("pointer")
    /\ \E n \in pointer_body(State) : Commit(n)

direct_declarator_array ==
    /\ Running("direct_declarator_array")
    /\ \E n \in direct_declarator_array_body(State) : Commit(n)

direct_declarator ==
    /\ Running("direct_declarator")
    /\ \E n \in direct_declarator_body(State) : Commit(n)

parameter_list ==
    /\ Running("parameter_list")
    /\ \E n \in parameter_list_body(State) : Commit(n)

block ==
    /\ Running("block")
    /\ \E n \in block_body(State) : Commit(n)

statement ==
    /\ Running("statement")
    /\ \E n \in statement_body(State) : Commit(n)

identifier ==
    /\ Running("identifier")
    /\ \E n \in identifier_body(State) : Commit(n)

assignment_expression ==
    /\ Running("assignment_expression")
    /\ \E n \in assignment_expression_body(State) : Commit(n)

conditional_expression ==
    /\ Running("conditional_expression")
    /\ \E n \in conditional_expression_body(State) : Commit(n)

logical_expression ==
    /\ Running("logical_expression")
    /\ \E n \in logical_expression_body(State) : Commit(n)

or_expression ==
    /\ Running("or_expression")
    /\ \E n \in or_expression_body(State) : Commit(n)

and_expression ==
    /\ Running("and_expression")
    /\ \E n \in and_expression_body(State) : Commit(n)

additive_expression ==
    /\ Running("additive_expression")
    /\ \E n \in additive_expression_body(State) : Commit(n)

multiplicative_expression ==
    /\ Running("multiplicative_expression")
    /\ \E n \in multiplicative_expression_body(State) : Commit(n)

postfix_expression ==
    /\ Running("postfix_expression")
    /\ \E n \in postfix_expression_body(State) : Commit(n)

primary_expression ==
    /\ Running("primary_expression")
    /\ \E n \in primary_expression_body(State) : Commit(n)

Next ==
    \/ compile
    \/ declaration
    \/ declaration_specifiers
    \/ declarator
    \/ pointer
    \/ direct_declarator_array
    \/ direct_declarator
    \/ parameter_list
    \/ block
    \/ statement
    \/ identifier
    \/ assignment_expression
    \/ conditional_expression
    \/ logical_expression
    \/ or_expression
    \/ and_expression
    \/ additive_expression
    \/ multiplicative_expression
    \/ postfix_expression
    \/ primary_expression

Spec == Init /\ [][Next]_vars

\* The process keeps executing as long as a parser function is running.
FairSpec == Spec /\ WF_vars(Next)

\* ------------------------------------------------------------ properties

\* The frames of the call stack that run fn.
Frames(fn) == {i \in DOMAIN stack : stack[i].fn = fn}

\* The function on top of the call stack stands at pc.
At(fn, pc) == Running(fn) /\ stack[Len(stack)].pc = pc

Max(S) == CHOOSE m \in S : \A n \in S : n <= m

\* ---- C1

RECURSIVE BaseOf(_)
\* The type T under all the dimensions of an array type.
BaseOf(t) == IF t.type = "ARRAY" THEN BaseOf(t.next) ELSE t

RECURSIVE DimProduct(_)
\* n1 * ... * nk of an array type, 1 for any other type.
DimProduct(t) == IF t.type = "ARRAY" THEN t.length * DimProduct(t.next) ELSE 1

RECURSIVE AllDimsPositive(_)
AllDimsPositive(t) ==
    t.type = "ARRAY" => t.length > 0 /\ AllDimsPositive(t.next)

\* direct_declarator() has just received the type of a declarator's array
\* suffix from the outermost call of direct_declarator_array().
ArrayDeclared == At("direct_declarator", "array_done")

C2_FatalExitsNonzero ==
    /\ status = "fatal" => exit_code # 0
    /\ exit_code = 0 => status = "done"

\* ---- C3

\* The entry blocks of the function definitions whose body is being parsed.
FunctionsInProgress ==
    {stack[i].function : i \in {j \in Frames("declaration") : stack[j].pc = "body_done"}}

\* compile() has the result of a declaration() in hand.
CompileHasResult ==
    Len(stack) = 1 /\ stack[1].fn = "compile" /\ stack[1].pc = "declaration_done"

\* declaration() returns to compile().
DeclarationReturns ==
    /\ Len(stack) = 2 /\ stack[2].fn = "declaration"
    /\ Len(stack') = 1 /\ status' = "running"

\* C3: output_block() is called only by compile(), on the non-null block that
\* a completed declaration() returned, which is the entry block of a function
\* definition parsed to its closing brace; a declaration() that returns null
\* emits nothing, and while a function definition is being parsed, or when a
\* fatal error has ended its parsing, none of its blocks has been emitted.
C3_OnlyCompleteFunctionsEmitted ==
    /\ [](\A i \in DOMAIN outputs :
            /\ outputs[i] \in DOMAIN blocks
            /\ outputs[i] \notin FunctionsInProgress)
    /\ [][outputs' # outputs =>
            /\ status = "running" /\ status' # "fatal"
            /\ CompileHasResult
            /\ ret.block # NULL
            /\ outputs' = Append(outputs, ret.block)]_vars
    /\ [][DeclarationReturns /\ ret'.block # NULL =>
            /\ stack[2].pc = "body_done"
            /\ ret'.block = stack[2].function]_vars

\* A function definition was emitted, and the parsing of the next one ended
\* in a fatal error: the first is the only block emitted.
C3_Witness ==
    /\ status = "fatal"
    /\ Len(outputs) = 1
    /\ FunctionsInProgress # {}

\* ---- C4

\* The loops whose body is being lowered, innermost last.
LoopsInProgress ==
    {i \in Frames("statement") :
        stack[i].pc \in {"while_body_done", "do_body_done", "for_body_done"}}

\* A break or continue statement has just set parent->jump[0].
JumpLowered == At("statement", "jump_semicolon")

\* The target the innermost enclosing loop gives to t: its next block for a
\* break, its top block for a continue (for a for loop without a condition
\* top is the body block).
LoopTarget(t) ==
    LET loop == stack[Max(LoopsInProgress)]
    IN  IF t = "BREAK" THEN loop.next ELSE loop.top

\* C4: a break inside a loop sets parent.jump[0] to the next block of the
\* innermost enclosing loop, and a continue sets it to that loop's top
\* block; after an inner loop has been lowered, the targets are those of
\* the outer loop again.
C4_JumpsToInnermostLoop ==
    JumpLowered /\ LoopsInProgress # {}
        => LET f == stack[Len(stack)]
           IN  blocks[f.parent].jump[0] = LoopTarget(f.t)

\* ---- C5

\* C5: a break or continue statement outside every loop is a fatal error:
\* it is never lowered with an empty loop context.
C5_NoJumpOutsideLoop == JumpLowered => LoopsInProgress # {}

\* ---- C6

\* An if, while, for or do statement is about to return its tail.
CompoundLowered ==
    /\ At("statement", "return")
    /\ stack[Len(stack)].t \in {"IF", "WHILE", "FOR", "DO"}

\* C6: the tail block that statement() returns for an if, while, for or do
\* statement, whatever its body is made of, has jump[0] and jump[1] null when
\* it is returned.
C6_TailJumpsNull ==
    CompoundLowered
        => LET node == stack[Len(stack)].node
           IN  blocks[node].jump[0] = NULL /\ blocks[node].jump[1] = NULL

\* ---- C7

\* The constructs being parsed that have opened a scope: compile() itself,
\* each function definition in its body, each compound statement.
ScopesOpened ==
    Cardinality({i \in DOMAIN stack :
        \/ stack[i].fn = "compile" /\ stack[i].pc = "declaration_done"
        \/ stack[i].fn = "declaration" /\ stack[i].pc = "body_done"
        \/ stack[i].fn = "statement" /\ stack[i].pc = "block_done"})

\* C7: push_scope() and pop_scope() are balanced on every path that does not
\* end in a fatal error: the number of scopes is at all times the number of
\* enclosing constructs that opened one, so a statement() or declaration()
\* returns at the depth it was entered at (a function body and a compound
\* statement are lowered one level deeper than what encloses them), and
\* after compile() has returned the depth is what it was before the call.
C7_ScopesBalanced ==
    /\ status = "running" => Len(scopes) = ScopesOpened
    /\ status = "done" => scopes = <<>>

\* A compound statement inside a function body has returned, and the depth
\* is that of the function body again.
C7_Witness ==
    /\ At("statement", "return")
    /\ stack[Len(stack)].t = "{"
    /\ Len(scopes) = 2

\* ---- C8

\* C8: within the lowering of a function each jump slot of each block is
\* assigned a non-null target at most once: a slot that holds a target is
\* not assigned another one.
C8_JumpsAssignedOnce ==
    [][\A b \in DOMAIN blocks : \A i \in {0, 1} :
          (blocks[b].jump[i] # NULL /\ ~blocks[b].freed /\ status' = "running")
              => blocks'[b].jump[i] = blocks[b].jump[i]]_vars

\* ---- C9

\* The lexer reported the end of the input on the first call of get_token().
EmptyUnit == eof /\ lexer.read = <<>>

\* C9: on an empty translation unit compile() calls output_block() zero
\* times and raises no fatal error.
C9_EmptyUnitCompiles ==
    EmptyUnit => status \in {"running", "done"} /\ outputs = <<>>

\* ---- C10

\* A return statement with an expression, bare and alone in braces.
ReturnStatement ==
    {<<"RETURN", "INTEGER", ";">>, <<"{", "RETURN", "INTEGER", ";", "}">>}

\* if ( e ) S1 else S2 with S1 and S2 return statements.
IfElseOfReturns ==
    {<<"IF", "(", "INTEGER", ")">> \o a \o <<"ELSE">> \o b :
        a \in ReturnStatement, b \in ReturnStatement}

EndsWith(seq, suffix) ==
    /\ Len(suffix) <= Len(seq)
    /\ SubSeq(seq, Len(seq) - Len(suffix) + 1, Len(seq)) = suffix

\* statement() is about to return the tail of an if/else statement whose
\* two branches are return statements.
IfElseOfReturnsLowered ==
    /\ At("statement", "return")
    /\ stack[Len(stack)].t = "IF"
    /\ stack[Len(stack)].left # NULL
    /\ \E p \in IfElseOfReturns : EndsWith(lexer.read, p)

\* C10 as stated: the two blocks that carry the return expressions are
\* distinct, each has jump[0] equal to the join block, and the join block is
\* the tail returned by statement().
C10_ReturnBlocksJoin ==
    IfElseOfReturnsLowered
        => LET f == stack[Len(stack)]
               right0 == blocks[f.parent].jump[1]
               left0 == blocks[f.parent].jump[0]
           IN  /\ ~blocks[right0].expr.null /\ ~blocks[left0].expr.null
               /\ right0 # left0
               /\ blocks[right0].jump[0] = f.next
               /\ blocks[left0].jump[0] = f.next
               /\ f.node = f.next

\* C10, amended: the two blocks that carry the return expressions are the
\* heads of the two branches; they are distinct and keep both jumps null.
\* What has jump[0] equal to the join block is the fresh orphan block that
\* each return statement returns as its tail; the two orphans are distinct
\* and carry no expression, and the join block, with both jumps null, is the
\* tail returned by statement().
C10_OrphansJoin ==
    IfElseOfReturnsLowered
        => LET f == stack[Len(stack)]
               right0 == blocks[f.parent].jump[1]
               left0 == blocks[f.parent].jump[0]
           IN  /\ ~blocks[right0].expr.null /\ ~blocks[left0].expr.null
               /\ right0 # left0
               /\ blocks[right0].jump = [i \in {0, 1} |-> NULL]
               /\ blocks[left0].jump = [i \in {0, 1} |-> NULL]
               /\ Cardinality({right0, left0, f.right, f.left, f.next, f.parent}) = 6
               /\ blocks[f.right].expr.null /\ blocks[f.left].expr.null
               /\ blocks[f.right].jump[0] = f.next
               /\ blocks[f.left].jump[0] = f.next
               /\ f.node = f.next
               /\ blocks[f.next].jump = [i \in {0, 1} |-> NULL]

\* if (2) { return 2; } else { return 3; } has been lowered.
C10_Witness ==
    /\ IfElseOfReturnsLowered
    /\ EndsWith(lexer.read, <<"}", "ELSE", "{", "RETURN", "INTEGER", ";", "}">>)
    /\ blocks[blocks[stack[Len(stack)].parent].jump[1]].expr.longval = 2
    /\ blocks[blocks[stack[Len(stack)].parent].jump[0]].expr.longval = 3

\* ---- C11

\* statement() is about to return node.
StatementReturns == At("statement", "return")

\* C11: every statement() call that returns does so with a defined block;
\* for a goto statement (and for the case and default labels, which
\* allocate nothing) that block is the parent the call was given.
C11_ReturnsDefinedBlock ==
    StatementReturns
        => LET f == stack[Len(stack)]
           IN  /\ f.node \in DOMAIN blocks
               /\ f.t \in {"GOTO", "CASE", "DEFAULT"} => f.node = f.parent

\* ---- C12

\* The initializer after a declarator's '=' is being lowered.
InitializerInProgress ==
    \E i \in Frames("declaration") : stack[i].pc = "initializer_done"

\* C12: every IR operation that the initializer of a declarator generates
\* (an assignment or a binary operation) is appended to an allocated block,
\* never to a null block.
C12_InitializerOpsInBlock ==
    InitializerInProgress
        => ~(status = "crash" /\ diag = "ir_append to null block")

\* ---- C13

\* C13: compile() terminates on every finite token stream, by returning or
\* by a fatal abort: the loop of block() cannot spin on the same lookahead
\* token.
C13_Terminates == <>(status # "running")

\* ---- C14

\* A for statement is about to return its tail.
ForLowered == At("statement", "return") /\ stack[Len(stack)].t = "FOR"

\* C14: for every for statement, with or without condition and increment
\* expressions, the body's tail has jump[0] = increment and the increment
\* block has jump[0] = the loop top (the body block when the condition is
\* absent), so the increment block is never a terminal block.
C14_ForLoopsBack ==
    ForLowered
        => LET f == stack[Len(stack)]
           IN  /\ blocks[f.body].jump[0] = f.increment
               /\ blocks[f.increment].jump[0] = f.top

====
